---- MODULE Spec2Model ----
(***************************************************************************)
(* Model of main.py (init-machine): a configuration of entries, each with  *)
(* an optional package installation and an optional group of files, is     *)
(* loaded, planned, confirmed and applied against the host.                *)
(*                                                                         *)
(* Strings are sequences of tokens (one token stands for a character or a  *)
(* run of characters without any of the separators the code looks at).     *)
(* File contents are sequences of bytes over "x", "CR", "LF".              *)
(***************************************************************************)
EXTENDS Integers, Sequences, FiniteSets, TLC

\* Python None, and the content of a file that does not exist
None == << "<None>" >>
Absent == << "<Absent>" >>

----------------------------------------------------------------------------
(* Python str helpers used by the code                                     *)

\* s[i..j] as a sequence (empty when j < i)
Slice(s, i, j) == IF j < i THEN << >> ELSE SubSeq(s, i, j)

\* old occurs in s at position i
OccursAt(s, old, i) ==
    /\ i + Len(old) - 1 <= Len(s)
    /\ Slice(s, i, i + Len(old) - 1) = old

\* str.replace(old, new): every non-overlapping occurrence, left to right
RECURSIVE ReplaceFrom(_, _, _, _)
ReplaceFrom(s, old, new, i) ==
    IF i > Len(s) THEN << >>
    ELSE IF OccursAt(s, old, i)
         THEN new \o ReplaceFrom(s, old, new, i + Len(old))
         ELSE << s[i] >> \o ReplaceFrom(s, old, new, i + 1)

StrReplace(s, old, new) == ReplaceFrom(s, old, new, 1)

\* str.split(sep) for a one-token separator: the list of fields
RECURSIVE SplitFrom(_, _, _, _)
SplitFrom(s, sep, i, cur) ==
    IF i > Len(s) THEN << cur >>
    ELSE IF s[i] = sep
         THEN << cur >> \o SplitFrom(s, sep, i + 1, << >>)
         ELSE SplitFrom(s, sep, i + 1, Append(cur, s[i]))

StrSplit(s, sep) == SplitFrom(s, sep, 1, << >>)

\* str.endswith(suffix)
EndsWith(s, suffix) ==
    /\ Len(suffix) <= Len(s)
    /\ Slice(s, Len(s) - Len(suffix) + 1, Len(s)) = suffix

\* Python truthiness of an optional string: None and "" are falsy
Truthy(v) == v # None /\ v # << >>

\* os.path.dirname: everything up to the last "/", trailing slashes
\* stripped unless the head is made of slashes only
LastSlash(p) ==
    IF \E i \in 1..Len(p) : p[i] = "/"
    THEN CHOOSE i \in 1..Len(p) : p[i] = "/" /\ \A j \in (i+1)..Len(p) : p[j] # "/"
    ELSE 0

RECURSIVE RStripSlash(_)
RStripSlash(p) ==
    IF p # << >> /\ p[Len(p)] = "/" THEN RStripSlash(Slice(p, 1, Len(p) - 1)) ELSE p

Dirname(p) ==
    LET head == Slice(p, 1, LastSlash(p))
    IN  IF head # << >> /\ \E i \in 1..Len(head) : head[i] # "/"
        THEN RStripSlash(head)
        ELSE head

----------------------------------------------------------------------------
(* Text-mode file access: open(path, "r").read() and open(path, "w")       *)

LineSep == "LF"

\* universal newlines on read: CR LF and a lone CR both become LF
RECURSIVE ReadTextFrom(_, _)
ReadTextFrom(b, i) ==
    IF i > Len(b) THEN << >>
    ELSE IF b[i] = "CR"
         THEN IF i < Len(b) /\ b[i + 1] = "LF"
              THEN << "LF" >> \o ReadTextFrom(b, i + 2)
              ELSE << "LF" >> \o ReadTextFrom(b, i + 1)
         ELSE << b[i] >> \o ReadTextFrom(b, i + 1)

ReadText(b) == ReadTextFrom(b, 1)

\* newline translation on write: LF becomes os.linesep
WriteText(t) == [i \in DOMAIN t |-> IF t[i] = "LF" THEN LineSep ELSE t[i]]

----------------------------------------------------------------------------
(* substitute_environment_variable                                         *)

\* end of the match of \${([^{]*)} that starts at i, or 0: the group is
\* greedy, so the match ends at the last "}" before the next "{"
MatchEnd(s, i) ==
    IF i + 1 <= Len(s) /\ s[i] = "$" /\ s[i + 1] = "{"
    THEN LET ends == { j \in (i + 2)..Len(s) :
                         /\ s[j] = "}"
                         /\ \A k \in (i + 2)..(j - 1) : s[k] # "{" }
         IN  IF ends = {} THEN 0
             ELSE CHOOSE j \in ends : \A k \in ends : k <= j
    ELSE 0

\* pattern.finditer(string): the matches [group0, group1] of the string as
\* it is when the loop starts
RECURSIVE FindIter(_, _)
FindIter(s, i) ==
    IF i > Len(s) THEN << >>
    ELSE LET e == MatchEnd(s, i)
         IN  IF e = 0 THEN FindIter(s, i + 1)
             ELSE << [g0 |-> Slice(s, i, e), g1 |-> Slice(s, i + 2, e - 1)] >>
                  \o FindIter(s, e + 1)

\* the loop body over the matches; os.environ[...] raises KeyError
RECURSIVE SubstLoop(_, _, _, _)
SubstLoop(string, matches, k, env) ==
    IF k > Len(matches) THEN [ok |-> TRUE, val |-> string]
    ELSE IF matches[k].g1 \notin DOMAIN env
         THEN [ok |-> FALSE, val |-> string]
         ELSE SubstLoop(StrReplace(string, matches[k].g0, env[matches[k].g1]),
                        matches, k + 1, env)

substitute_environment_variable(string, env) ==
    SubstLoop(string, FindIter(string, 1), 1, env)

----------------------------------------------------------------------------
(* The host: files, directories, registered repositories, packages         *)

VARIABLES config, env, sys, sys0, pc, entries, i, any_actions, out, log,
          answer, prompts, status, string, expanded

vars == << config, env, sys, sys0, pc, entries, i, any_actions, out, log,
           answer, prompts, status, string, expanded >>

FileAt(s, p) == IF p \in DOMAIN s.fs THEN s.fs[p] ELSE Absent

\* os.path.exists
Exists(s, p) == FileAt(s, p) # Absent \/ p \in s.dirs

\* paths the invoking user may not write without elevation
RootOwned(p) == Len(p) >= 2 /\ p[1] = "/" /\ p[2] = "etc"

\* a directory and the ancestors named by its path
RECURSIVE Ancestors(_)
Ancestors(d) ==
    IF d = << >> \/ Dirname(d) = d THEN {d} ELSE {d} \cup Ancestors(Dirname(d))

\* an external effect: the entry it belongs to, the file of the entry (0 for
\* the installation), and whether it succeeded
Event(op, e, k, arg, ok) == [op |-> op, entry |-> e, idx |-> k, arg |-> arg, ok |-> ok]

Line(kind, text) == [kind |-> kind, text |-> text]

\* print_message: returns the output and whether the process exits (code 1)
print_message(o, message, error) ==
    IF error
    THEN [out |-> Append(o, Line("ERROR", message)), exit |-> TRUE]
    ELSE [out |-> Append(o, Line("INFO", message)), exit |-> FALSE]

\* the program run_command starts, given command.split(" ")
RunArgv(argv, s, ext) ==
    LET R(st, s2) == [raised |-> FALSE, status |-> st, sys |-> s2]
    IN  IF argv[1] = << "true" >> THEN R(TRUE, s)
        ELSE IF argv[1] = << "false" >> THEN R(FALSE, s)
        ELSE IF argv[1] = << "rpm" >> /\ Len(argv) = 3
             THEN R(argv[3] \in s.installed, s)
        ELSE IF argv[1] = << "test" >> /\ Len(argv) = 4
             THEN R(~Exists(s, argv[4]), s)
        ELSE IF argv[1] = << "sudo" >> /\ Len(argv) = 6 /\ argv[2] = << "dnf" >>
             THEN R(ext, IF ext THEN [s EXCEPT !.repos = @ \cup {argv[6]}] ELSE s)
        ELSE IF argv[1] = << "sudo" >> /\ Len(argv) = 5 /\ argv[2] = << "dnf" >>
             THEN R(ext, IF ext THEN [s EXCEPT !.installed = @ \cup {argv[5]}] ELSE s)
        ELSE IF argv[1] = << "sudo" >> /\ Len(argv) = 4 /\ argv[2] = << "mkdir" >>
             THEN R(ext, IF ext THEN [s EXCEPT !.dirs = @ \cup Ancestors(argv[4])]
                                ELSE s)
        ELSE IF argv[1] = << "sudo" >> /\ Len(argv) = 4 /\ argv[2] = << "cp" >>
             THEN IF /\ ext
                     /\ FileAt(s, argv[3]) # Absent
                     /\ argv[4] \in DOMAIN s.fs
                     /\ Dirname(argv[4]) \in s.dirs
                  THEN R(TRUE, [s EXCEPT !.fs[argv[4]] = s.fs[argv[3]]])
                  ELSE R(FALSE, s)
        ELSE [raised |-> TRUE, status |-> FALSE, sys |-> s]

\* run_command: command.split(" ") is executed; ext is what the outside
\* world decides (whether an elevated command succeeds).  Returns status,
\* whether subprocess.run raised (no such program), and the host afterwards.
run_command(command, s, ext) == RunArgv(StrSplit(command, " "), s, ext)

----------------------------------------------------------------------------
(* InstallConfig                                                           *)

\* a verification that only rejects a configuration without any package
InstallConfig_verify_neither(self) ==
    IF \E k \in 1..Len(self.if_fail) : self.if_fail[k] = "LF"
    THEN [ok |-> FALSE, obj |-> self, why |-> "multiline"]
    ELSE IF ~Truthy(self.install_from_repo) /\ ~Truthy(self.install_from_remote_file)
    THEN [ok |-> FALSE, obj |-> self, why |-> "either"]
    ELSE IF /\ Truthy(self.install_from_remote_file)
            /\ ~EndsWith(self.install_from_remote_file, << ".rpm" >>)
    THEN [ok |-> FALSE, obj |-> self, why |-> "rpm"]
    ELSE [ok |-> TRUE, obj |-> self, why |-> "ok"]

\* a verification without the check of lines 59-60
InstallConfig_verify_without_multiline(self) ==
    IF (~Truthy(self.install_from_repo))
         = (~Truthy(self.install_from_remote_file))
    THEN [ok |-> FALSE, obj |-> self, why |-> "either"]
    ELSE IF /\ Truthy(self.install_from_remote_file)
            /\ ~EndsWith(self.install_from_remote_file, << ".rpm" >>)
    THEN [ok |-> FALSE, obj |-> self, why |-> "rpm"]
    ELSE [ok |-> TRUE, obj |-> self, why |-> "ok"]

\* a verification that takes a .txt file for an archive as well
InstallConfig_verify_txt(self) ==
    IF \E k \in 1..Len(self.if_fail) : self.if_fail[k] = "LF"
    THEN [ok |-> FALSE, obj |-> self, why |-> "multiline"]
    ELSE IF (~Truthy(self.install_from_repo))
              = (~Truthy(self.install_from_remote_file))
    THEN [ok |-> FALSE, obj |-> self, why |-> "either"]
    ELSE IF /\ Truthy(self.install_from_remote_file)
            /\ ~EndsWith(self.install_from_remote_file, << ".rpm" >>)
            /\ ~EndsWith(self.install_from_remote_file, << ".txt" >>)
    THEN [ok |-> FALSE, obj |-> self, why |-> "rpm"]
    ELSE [ok |-> TRUE, obj |-> self, why |-> "ok"]

\* the three verifications of InstallConfig.__init__, in order
InstallConfig_verify(self) ==
    IF \E k \in 1..Len(self.if_fail) : self.if_fail[k] = "LF"
    THEN [ok |-> FALSE, obj |-> self, why |-> "multiline"]
    ELSE IF (~Truthy(self.install_from_repo))
              = (~Truthy(self.install_from_remote_file))
    THEN [ok |-> FALSE, obj |-> self, why |-> "either"]
    ELSE IF /\ Truthy(self.install_from_remote_file)
            /\ ~EndsWith(self.install_from_remote_file, << ".rpm" >>)
    THEN [ok |-> FALSE, obj |-> self, why |-> "rpm"]
    ELSE [ok |-> TRUE, obj |-> self, why |-> "ok"]

\* InstallConfig.__init__: data.get(...) gives None for a missing key.
\* Returns the object, or ok = FALSE where print_message(error=True) exits.
InstallConfig_init(data) ==
    InstallConfig_verify([if_fail |-> data.if_fail,
                          repo |-> data.repo,
                          install_from_repo |-> data.install_from_repo,
                          install_from_remote_file |-> data.install_from_remote_file])

\* a probe result that forgets the negation of line 76
ProbeResultNotNegated(r) == [raised |-> r.raised, value |-> r.status, sys |-> r.sys]

\* line 76: return not status
ProbeResult(r) == [raised |-> r.raised, value |-> ~r.status, sys |-> r.sys]

\* InstallConfig.should_be_installed: not status of the probe; raised when
\* the probe's program cannot be started
should_be_installed(self, s) == ProbeResult(run_command(self.if_fail, s, FALSE))

HttpOK == 200
HttpNotFound == 404
RpmBytes == << "x", "x" >>

\* a run context: host, printed lines, effects so far, and whether the
\* process has exited with code 1
Ctx(s, o, l, x) == [sys |-> s, out |-> o, log |-> l, exit |-> x]

Info(c, message) == [c EXCEPT !.out = print_message(c.out, message, FALSE).out]

Fatal(c, message) == [c EXCEPT !.out = print_message(c.out, message, TRUE).out,
                               !.exit = TRUE]

\* lines 101-103 and 120-122: the result r of "sudo dnf install -y <spec>"
AfterDnf(c, e, spec, r) ==
    LET c1 == [c EXCEPT !.sys = r.sys,
                        !.log = Append(@, Event("dnf_install", e, 0, spec, r.status))]
    IN  IF r.raised THEN [c1 EXCEPT !.exit = TRUE]
        ELSE IF ~r.status THEN Fatal(c1, << "Failed to install package" >>)
        ELSE c1

DnfInstall(c, e, spec, ext) ==
    AfterDnf(c, e, spec,
             run_command(<< "sudo", " ", "dnf", " ", "install", " ", "-y", " " >>
                         \o spec, c.sys, ext.dnf))

\* a failed add-repo that is reported but does not end the run
AfterAddRepoIgnored(c, e, repo, r) ==
    [c EXCEPT !.sys = r.sys,
              !.log = Append(@, Event("add_repo", e, 0, repo, r.status)),
              !.exit = r.raised]

\* lines 95-97: the result r of the add-repo command.  A failure reaches
\* line 97, whose f-string reads the still unbound local `output`: the
\* process dies with a traceback (exit code 1) instead of the [ERROR] line.
AfterAddRepo(c, e, repo, r) ==
    [c EXCEPT !.sys = r.sys,
              !.log = Append(@, Event("add_repo", e, 0, repo, r.status)),
              !.exit = r.raised \/ ~r.status]

AddRepo(c, e, repo, ext) ==
    AfterAddRepo(Info(c, << "Adding repo" >>), e, repo,
                 run_command(<< "sudo", " ", "dnf", " ", "config-manager", " ",
                                "-y", " ", "--add-repo", " " >> \o repo,
                             c.sys, ext.repo))

\* an installation that runs the package manager again after a failure
InstallPackageRetrying(c, e, self, ext) ==
    IF c.exit THEN c
    ELSE IF DnfInstall(Info(c, << "Installing package" >>), e,
                       self.install_from_repo, ext).exit
    THEN DnfInstall([DnfInstall(Info(c, << "Installing package" >>), e,
                                self.install_from_repo, ext)
                       EXCEPT !.exit = FALSE],
                    e, self.install_from_repo, ext)
    ELSE DnfInstall(Info(c, << "Installing package" >>), e,
                    self.install_from_repo, ext)

\* lines 99-103
InstallPackage(c, e, self, ext) ==
    IF c.exit THEN c
    ELSE DnfInstall(Info(c, << "Installing package" >>), e,
                    self.install_from_repo, ext)

\* InstallConfig.__install_from_repo
install_from_repo(self, e, c, ext) ==
    InstallPackage(IF Truthy(self.repo) THEN AddRepo(c, e, self.repo, ext) ELSE c,
                   e, self, ext)

\* lines 113-116: the archive is written under /tmp, named after the last
\* segment of the URL
TmpName(url) == << "/", "tmp", "/" >> \o StrSplit(url, "/")[Len(StrSplit(url, "/"))]

SaveArchive(c, e, filename) ==
    [c EXCEPT !.sys = IF filename \in DOMAIN c.sys.fs
                      THEN [c.sys EXCEPT !.fs[filename] = RpmBytes]
                      ELSE c.sys,
              !.log = Append(@, Event("tmp_write", e, 0, filename, TRUE))]

InstallArchive(c, e, filename, ext) ==
    DnfInstall(Info(SaveArchive(c, e, filename), << "Installing package from file" >>),
               e, filename, ext)

Downloaded(c, e, url, ext) ==
    [c EXCEPT !.log = Append(@, Event("download", e, 0, url, ext.http = HttpOK))]

\* InstallConfig.__install_from_remote_file
install_from_remote_file(self, e, c, ext) ==
    IF ext.http # HttpOK
    THEN Fatal(Downloaded(Info(c, << "Downloading remote file" >>), e,
                          self.install_from_remote_file, ext),
               << "Failed to download remote file" >>)
    ELSE InstallArchive(Downloaded(Info(c, << "Downloading remote file" >>), e,
                                   self.install_from_remote_file, ext),
                        e, TmpName(self.install_from_remote_file), ext)

\* lines 82-86 once the probe has answered p
InstallAfterProbe(self, e, c, ext, p) ==
    LET c0 == [c EXCEPT !.sys = p.sys,
                        !.log = Append(@, Event("probe", e, 0, self.if_fail,
                                                ~p.raised /\ ~p.value)),
                        !.exit = p.raised]
    IN  IF p.raised \/ ~p.value THEN c0
        ELSE IF Truthy(self.install_from_repo)
             THEN install_from_repo(self, e, c0, ext)
             ELSE install_from_remote_file(self, e, c0, ext)

\* InstallConfig.install: the probe is run again; the elif tests the bound
\* method, which is always true
install(self, e, c, ext) ==
    InstallAfterProbe(self, e, c, ext, should_be_installed(self, c.sys))

----------------------------------------------------------------------------
(* FilesConfig                                                             *)

ACTION_CREATED == 1
ACTION_UPDATED == 2
ACTION_NONE == 3

FileRec(origin_file, target_file, s, a) ==
    [origin_file |-> origin_file,
     origin_file_content |-> ReadText(FileAt(s, origin_file)),
     target_file |-> target_file,
     action |-> a]

\* a classification that compares the bytes of the two files
ClassifyTargetBytes(origin_file, target_file, s) ==
    IF ~Exists(s, target_file)
    THEN [ok |-> FileAt(s, origin_file) # Absent,
          file |-> FileRec(origin_file, target_file, s, ACTION_CREATED)]
    ELSE IF FileAt(s, origin_file) = Absent \/ FileAt(s, target_file) = Absent
    THEN [ok |-> FALSE, file |-> FileRec(origin_file, target_file, s, ACTION_NONE)]
    ELSE IF FileAt(s, origin_file) # FileAt(s, target_file)
    THEN [ok |-> TRUE, file |-> FileRec(origin_file, target_file, s, ACTION_UPDATED)]
    ELSE [ok |-> TRUE, file |-> FileRec(origin_file, target_file, s, ACTION_NONE)]

\* lines 138-149 for the expanded target: ok = FALSE where an exception ends
\* the run (a source or a target that cannot be read)
ClassifyTarget(origin_file, target_file, s) ==
    IF ~Exists(s, target_file)
    THEN [ok |-> FileAt(s, origin_file) # Absent,
          file |-> FileRec(origin_file, target_file, s, ACTION_CREATED)]
    ELSE IF FileAt(s, origin_file) = Absent \/ FileAt(s, target_file) = Absent
    THEN [ok |-> FALSE, file |-> FileRec(origin_file, target_file, s, ACTION_NONE)]
    ELSE IF ReadText(FileAt(s, origin_file)) # ReadText(FileAt(s, target_file))
    THEN [ok |-> TRUE, file |-> FileRec(origin_file, target_file, s, ACTION_UPDATED)]
    ELSE [ok |-> TRUE, file |-> FileRec(origin_file, target_file, s, ACTION_NONE)]

ClassifyExpanded(origin_file, sub, s) ==
    IF ~sub.ok
    THEN [ok |-> FALSE, file |-> FileRec(origin_file, sub.val, s, ACTION_NONE)]
    ELSE ClassifyTarget(origin_file, sub.val, s)

\* one iteration of the loop of FilesConfig.__init__ for the pair
\* (origin_file, target_file); the KeyError of an unbound variable ends the run
ClassifyFile(origin_file, pattern, en, s) ==
    ClassifyExpanded(origin_file, substitute_environment_variable(pattern, en), s)

\* FilesConfig.__init__: data is the mapping in insertion order, a sequence
\* of << origin_file, target_file >> with distinct origins
RECURSIVE FilesConfig_loop(_, _, _, _, _)
RECURSIVE FilesConfig_step(_, _, _, _, _, _)
FilesConfig_step(data, k, en, s, files, r) ==
    IF ~r.ok THEN [ok |-> FALSE, obj |-> [files |-> files]]
    ELSE FilesConfig_loop(data, k + 1, en, s, Append(files, r.file))

FilesConfig_loop(data, k, en, s, files) ==
    IF k > Len(data) THEN [ok |-> TRUE, obj |-> [files |-> files]]
    ELSE FilesConfig_step(data, k, en, s, files,
                          ClassifyFile(data[k][1], data[k][2], en, s))

FilesConfig_init(data, en, s) == FilesConfig_loop(data, 1, en, s, << >>)

\* os.makedirs(d, exist_ok=True): "ok", "denied" (PermissionError) or
\* "error" (FileNotFoundError for the empty path)
Makedirs(s, d) ==
    IF d = << >> THEN [res |-> "error", sys |-> s]
    ELSE IF d \in s.dirs THEN [res |-> "ok", sys |-> s]
    ELSE IF RootOwned(d)
    THEN [res |-> "denied", sys |-> s]
    ELSE [res |-> "ok", sys |-> [s EXCEPT !.dirs = @ \cup Ancestors(d)]]

\* an open(target, "w") whose write is missing: the file is left empty
OpenWriteTruncating(s, target, content) ==
    IF RootOwned(target) THEN [res |-> "denied", sys |-> s]
    ELSE [res |-> "ok",
          sys |-> IF target \in DOMAIN s.fs
                  THEN [s EXCEPT !.fs[target] = << >>]
                  ELSE s]

\* an open(target, "a"): the content is added to what the file holds
OpenWriteAppending(s, target, content) ==
    IF RootOwned(target) THEN [res |-> "denied", sys |-> s]
    ELSE [res |-> "ok",
          sys |-> IF target \in DOMAIN s.fs
                  THEN [s EXCEPT !.fs[target] =
                          (IF @ = Absent THEN << >> ELSE @) \o WriteText(content)]
                  ELSE s]

\* open(target, "w") followed by file.write(content), in text mode
OpenWrite(s, target, content) ==
    IF RootOwned(target) THEN [res |-> "denied", sys |-> s]
    ELSE [res |-> "ok",
          sys |-> IF target \in DOMAIN s.fs
                  THEN [s EXCEPT !.fs[target] = WriteText(content)]
                  ELSE s]

\* elevated commands whose failure ends the run
AfterSudoChecked(c, e, k, op, arg, r) ==
    [c EXCEPT !.sys = r.sys, !.log = Append(@, Event(op, e, k, arg, r.status)),
              !.exit = ~r.status]

\* the elevated commands of the except PermissionError branches; their
\* results are thrown away
AfterSudo(c, e, k, op, arg, r) ==
    [c EXCEPT !.sys = r.sys, !.log = Append(@, Event(op, e, k, arg, r.status))]

SudoMkdir(c, e, k, dir, x) ==
    AfterSudo(c, e, k, "sudo_mkdir", dir,
              run_command(<< "sudo", " ", "mkdir", " ", "-p", " " >> \o dir,
                          c.sys, x.mkdir))

SudoCp(c, e, k, each, x) ==
    AfterSudo(c, e, k, "sudo_cp", each.target_file,
              run_command(<< "sudo", " ", "cp", " " >> \o each.origin_file
                            \o << " " >> \o each.target_file, c.sys, x.cp))

\* lines 161-162 and 171-172, with the fallback of lines 163-167 (withMkdir)
\* or 173-175
WriteOrSudo(c, e, k, each, x, withMkdir, w) ==
    IF w.res = "denied"
    THEN SudoCp(IF withMkdir
                THEN SudoMkdir(c, e, k, Dirname(each.target_file), x)
                ELSE c,
                e, k, each, x)
    ELSE [c EXCEPT !.sys = w.sys,
                   !.log = Append(@, Event("write", e, k, each.target_file, TRUE))]

\* lines 160-167 once os.makedirs has answered md
CreateAfterMakedirs(c, e, k, each, x, md) ==
    IF md.res = "error" THEN [c EXCEPT !.exit = TRUE]
    ELSE IF md.res = "denied"
    THEN SudoCp(SudoMkdir(c, e, k, Dirname(each.target_file), x), e, k, each, x)
    ELSE IF md.sys # c.sys
    THEN WriteOrSudo([c EXCEPT !.sys = md.sys,
                               !.log = Append(@, Event("makedirs", e, k,
                                                       Dirname(each.target_file),
                                                       TRUE))],
                     e, k, each, x, TRUE,
                     OpenWrite(md.sys, each.target_file, each.origin_file_content))
    ELSE WriteOrSudo(c, e, k, each, x, TRUE,
                     OpenWrite(c.sys, each.target_file, each.origin_file_content))

\* an iteration that classifies the pair again before it acts
WriteOneReclassified(each, e, k, c, x) ==
    IF ClassifyTarget(each.origin_file, each.target_file, c.sys).file.action
         = ACTION_CREATED
    THEN CreateAfterMakedirs(Info(c, << "Creating file" >> \o each.target_file),
                             e, k, each, x,
                             Makedirs(c.sys, Dirname(each.target_file)))
    ELSE IF ClassifyTarget(each.origin_file, each.target_file, c.sys).file.action
              = ACTION_UPDATED
    THEN WriteOrSudo(Info(c, << "Updating file" >> \o each.target_file),
                     e, k, each, x, FALSE,
                     OpenWrite(c.sys, each.target_file, each.origin_file_content))
    ELSE c

\* one iteration of the loop of FilesConfig.write_files
WriteOne(each, e, k, c, x) ==
    IF each.action = ACTION_CREATED
    THEN CreateAfterMakedirs(Info(c, << "Creating file" >> \o each.target_file),
                             e, k, each, x,
                             Makedirs(c.sys, Dirname(each.target_file)))
    ELSE IF each.action = ACTION_UPDATED
    THEN WriteOrSudo(Info(c, << "Updating file" >> \o each.target_file),
                     e, k, each, x, FALSE,
                     OpenWrite(c.sys, each.target_file, each.origin_file_content))
    ELSE c

\* a loop over the files from the last to the first
RECURSIVE write_files_down(_, _, _, _, _)
write_files_down(self, k, e, c, ext) ==
    IF k < 1 \/ c.exit THEN c
    ELSE write_files_down(self, k - 1, e, WriteOne(self.files[k], e, k, c, ext[k]), ext)

write_files_backwards(self, e, c, ext) ==
    write_files_down(self, Len(self.files), e, c, ext)

\* FilesConfig.write_files: ext[k] is the outcome of the elevated commands
\* of the k-th file, should they be needed
RECURSIVE write_files_loop(_, _, _, _, _)
write_files_loop(self, k, e, c, ext) ==
    IF k > Len(self.files) \/ c.exit THEN c
    ELSE write_files_loop(self, k + 1, e, WriteOne(self.files[k], e, k, c, ext[k]), ext)

write_files(self, e, c, ext) == write_files_loop(self, 1, e, c, ext)

----------------------------------------------------------------------------
(* Entry                                                                   *)

EntryOf(name, data, ic, fc) ==
    [ok |-> ic.ok /\ fc.ok,
     why |-> ic.why,
     obj |-> [name |-> name,
              install_config |-> IF data.install # << >> THEN << ic.obj >>
                                 ELSE << >>,
              files_config |-> IF data.files # << >> THEN << fc.obj >>
                               ELSE << >>]]

\* Entry.__init__: data.install and data.files are sequences of length 0
\* (key missing or falsy) or 1; so are install_config and files_config.
\* The files are not looked at when the InstallConfig has ended the run.
Entry_init(name, data, en, s) ==
    EntryOf(name, data,
            IF data.install # << >>
            THEN InstallConfig_init(data.install[1])
            ELSE [ok |-> TRUE, obj |-> None, why |-> "ok"],
            IF data.files # << >>
            THEN FilesConfig_init(data.files[1], en, s)
            ELSE [ok |-> TRUE, obj |-> [files |-> << >>]])

\* a collection with an else where line 201 has an elif: a file without
\* pending work is reported as updated
RECURSIVE FileLinesElse(_, _)
FileLinesElse(files, k) ==
    IF k > Len(files) THEN << >>
    ELSE (IF files[k].action = ACTION_CREATED
          THEN << Line("File will be created", files[k].target_file) >>
          ELSE << Line("File will be updated", files[k].target_file) >>)
         \o FileLinesElse(files, k + 1)

\* the lines get_actions collects for the files of an entry
RECURSIVE FileLines(_, _)
FileLines(files, k) ==
    IF k > Len(files) THEN << >>
    ELSE (IF files[k].action = ACTION_CREATED
          THEN << Line("File will be created", files[k].target_file) >>
          ELSE IF files[k].action = ACTION_UPDATED
          THEN << Line("File will be updated", files[k].target_file) >>
          ELSE << >>)
         \o FileLines(files, k + 1)

\* line 193
Package(ic) ==
    IF Truthy(ic.install_from_repo) THEN ic.install_from_repo
    ELSE ic.install_from_remote_file

\* lines 204-211: what is printed for the collected actions, and the result
Report(self, p, actions) ==
    [raised |-> p.raised,
     probed |-> self.install_config # << >>,
     needs |-> p.value,
     actions |-> actions,
     printed |-> << Line("Name", self.name) >>
                 \o (IF actions # << >> THEN actions ELSE << Line("OK", << >>) >>)
                 \o << Line("", << >>) >>,
     value |-> actions # << >>,
     sys |-> p.sys]

\* lines 191-202 once the probe (if any) has answered p
Collect(self, p) ==
    Report(self, p,
           (IF p.value
            THEN << Line("Package will be installed",
                         Package(self.install_config[1])) >>
            ELSE << >>)
           \o (IF self.files_config # << >>
               THEN FileLines(self.files_config[1].files, 1)
               ELSE << >>))

\* a get_actions that already writes the files it reports
get_actions_applying(self, s) ==
    Collect(self,
            IF self.install_config # << >>
            THEN should_be_installed(self.install_config[1],
                   IF self.files_config # << >>
                   THEN write_files(self.files_config[1], 0,
                                    Ctx(s, << >>, << >>, FALSE),
                                    [k \in 1..Len(self.files_config[1].files) |->
                                       [mkdir |-> FALSE, cp |-> FALSE]]).sys
                   ELSE s)
            ELSE [raised |-> FALSE, value |-> FALSE,
                  sys |-> IF self.files_config # << >>
                          THEN write_files(self.files_config[1], 0,
                                           Ctx(s, << >>, << >>, FALSE),
                                           [k \in 1..Len(self.files_config[1].files) |->
                                              [mkdir |-> FALSE, cp |-> FALSE]]).sys
                          ELSE s])

\* Entry.get_actions: the lines printed, the value returned, the host
\* afterwards, and whether the probe raised
get_actions(self, s) ==
    Collect(self,
            IF self.install_config # << >>
            THEN should_be_installed(self.install_config[1], s)
            ELSE [raised |-> FALSE, value |-> FALSE, sys |-> s])

----------------
(* The configurations, environments and hosts the runs start from          *)

MaxEntries == 2

S1 == << "s1" >>
S2 == << "s2" >>
S3 == << "s3" >>
HomeF == << "/", "h", "/", "f" >>
EtcG == << "/", "etc", "/", "g" >>
EtcDG == << "/", "etc", "/", "d", "/", "g" >>
TmpRpm == << "/", "tmp", "/", "p", ".rpm" >>
PatHomeF == << "$", "{", "H", "}", "/", "f" >>
PatUnbound == << "$", "{", "U", "}", "/", "f" >>

KFile == << "/", "k", "/", "k" >>

AllPaths == {S1, S2, S3, HomeF, EtcG, EtcDG, KFile, TmpRpm}

Environ == << "H" >> :> << "/", "h" >>

Pkg == << "pkg" >>
Repo == << "repo" >>
Url == << "http:", "/", "p", ".rpm" >>
BadUrl == << "http:", "/", "p", ".txt" >>

ProbeFalse == << "false" >>
ProbeTrue == << "true" >>
ProbeRpm == << "rpm", " ", "-q", " " >> \o Pkg
ProbeTest == << "test", " ", "!", " ", "-e", " " >> \o HomeF
ProbeMulti == << "true", "LF", "true" >>
ProbeMissing == << "nosuchprogram" >>

IC(if_fail, repo, from_repo, from_remote) ==
    [if_fail |-> if_fail, repo |-> repo, install_from_repo |-> from_repo,
     install_from_remote_file |-> from_remote]

\* the "install" sections of the runs
InstallChoices ==
    { IC(ProbeFalse, Repo, Pkg, None),
      IC(ProbeRpm, None, Pkg, None),
      IC(ProbeTest, None, None, Url),
      IC(ProbeMissing, None, Pkg, None),
      IC(ProbeTrue, None, << >>, Url),
      IC(ProbeFalse, None, Pkg, Url),
      IC(ProbeFalse, Repo, None, None),
      IC(ProbeMulti, None, Pkg, None),
      IC(ProbeFalse, None, None, BadUrl) }

\* the "files" sections of the runs: mappings in insertion order
FilesChoices ==
    { << << S1, PatHomeF >> >>,
      << << S2, PatHomeF >> >>,
      << << S1, EtcG >> >>,
      << << S1, PatHomeF >>, << S2, PatHomeF >> >>,
      << << S1, EtcG >>, << S2, PatHomeF >> >>,
      << << S2, EtcDG >> >>,
      << << S3, PatHomeF >> >>,
      << << HomeF, KFile >> >>,
      << << HomeF, EtcG >> >>,
      << << S1, PatUnbound >> >> }

\* the files sections that are combined with an installation in one entry
PlainFiles ==
    { << << S1, PatHomeF >> >>,
      << << S1, EtcG >> >>,
      << << S1, PatHomeF >>, << S2, PatHomeF >> >> }

ED(ins, fls) == [install |-> ins, files |-> fls]

\* the entries with both sections: an installation whose probe always fails
\* with each of the files sections above, and one whose probe looks at a
\* target of the files
Combined ==
    { ED(<< IC(ProbeFalse, Repo, Pkg, None) >>, << f >>) : f \in PlainFiles }
    \cup { ED(<< IC(ProbeTest, None, None, Url) >>,
               << << << S1, PatHomeF >>, << S2, PatHomeF >> >> >>) }

\* the entries of the runs: every section alone, the combinations above,
\* and an entry with neither section
EntryData ==
    { ED(<< c >>, << >>) : c \in InstallChoices }
    \cup { ED(<< >>, << f >>) : f \in FilesChoices }
    \cup Combined
    \cup { ED(<< >>, << >>) }

EntryName(k) == << "entry", k >>

Configs ==
    UNION { [1..n -> EntryData] : n \in 1..MaxEntries }

SourceCRLF == << "x", "CR", "LF" >>
TextLF == << "x", "LF" >>
OtherText == << "y" >>
ThirdText == << "z" >>

Hosts ==
    { [fs |-> [p \in AllPaths |->
                 IF p = S1 THEN SourceCRLF
                 ELSE IF p = S2 THEN OtherText
                 ELSE IF p = HomeF THEN f
                 ELSE IF p = EtcG THEN g
                 ELSE IF p = KFile THEN ThirdText
                 ELSE Absent],
       dirs |-> { << "/" >>, << "/", "etc" >>, << "/", "tmp" >>, << "/", "k" >> }
                \cup (IF f # Absent THEN { << "/", "h" >> } ELSE {}),
       repos |-> {},
       installed |-> {}] :
        f \in {Absent, TextLF, OtherText},
        g \in {Absent, OtherText} }

Inputs == { "", "y", "yes", "Y ", "Y" }

InstallExt == [repo : BOOLEAN, dnf : BOOLEAN, http : {HttpOK, HttpNotFound}]
FilesExt(n) == [1..n -> [mkdir : BOOLEAN, cp : BOOLEAN]]

----------------------------------------------------------------------------
(* __main__                                                                *)

Init ==
    /\ config \in Configs
    /\ env = Environ
    /\ sys \in Hosts
    /\ sys0 = sys
    /\ pc = "load"
    /\ entries = << >>
    /\ i = 1
    /\ any_actions = FALSE
    /\ out = << >>
    /\ log = << >>
    /\ answer = None
    /\ prompts = 0
    /\ status = -1
    /\ string = << >>
    /\ expanded = << >>

\* a loader that keeps an entry whose construction failed
LoadedLenient(r) ==
    /\ entries' = Append(entries, r.obj)
    /\ IF i = Len(config)
       THEN pc' = "plan" /\ i' = 1
       ELSE pc' = "load" /\ i' = i + 1
    /\ UNCHANGED << out, status >>

\* what Load does with the result r of Entry(name, data)
Loaded(r) ==
    IF r.ok
    THEN /\ entries' = Append(entries, r.obj)
         /\ IF i = Len(config)
            THEN pc' = "plan" /\ i' = 1
            ELSE pc' = "load" /\ i' = i + 1
         /\ UNCHANGED << out, status >>
    ELSE /\ pc' = "exit"
         /\ status' = 1
         /\ out' = IF r.why # "ok"
                   THEN print_message(out, << r.why >>, TRUE).out
                   ELSE out
         /\ UNCHANGED << entries, i >>

\* lines 216-218, one entry at a time: entries.append(Entry(name, data))
Load ==
    /\ pc = "load"
    /\ Loaded(Entry_init(EntryName(i), config[i], env, sys))
    /\ UNCHANGED << string, expanded, config, env, sys, sys0, any_actions, log, answer, prompts >>

\* an accumulation that keeps only the last entry's result
AccumulateLast(v, any) == v

\* line 222: each.get_actions() or any_actions
Accumulate(v, any) == v \/ any

\* what Plan does with the result r of each.get_actions()
Planned(r) ==
    /\ sys' = r.sys
    /\ log' = IF r.probed
              THEN Append(log, Event("plan_probe", i, 0,
                                     entries[i].install_config[1].if_fail,
                                     ~r.raised /\ ~r.needs))
              ELSE log
    /\ IF r.raised
       THEN /\ pc' = "exit"
            /\ status' = 1
            /\ UNCHANGED << out, any_actions, i >>
       ELSE /\ out' = out \o r.printed
            /\ any_actions' = Accumulate(r.value, any_actions)
            /\ IF i = Len(entries)
               THEN pc' = "confirm" /\ i' = 1
               ELSE pc' = "plan" /\ i' = i + 1
            /\ UNCHANGED status

\* lines 220-222, one entry at a time:
\* any_actions = each.get_actions() or any_actions
Plan ==
    /\ pc = "plan"
    /\ Planned(get_actions(entries[i], sys))
    /\ UNCHANGED << string, expanded, config, env, sys0, entries, answer, prompts >>

\* a confirmation that ignores the case of the answer
AcceptsAnyCase(a) == a \in {"Y", "y"}

\* line 223: the answer that confirms
Accepts(a) == a = "Y"

\* line 223: input() is only called when any_actions is true
Confirm ==
    /\ pc = "confirm"
    /\ IF any_actions
       THEN \E a \in Inputs :
              /\ answer' = << a >>
              /\ prompts' = prompts + 1
              /\ IF Accepts(a)
                 THEN pc' = "install" /\ UNCHANGED status
                 ELSE pc' = "exit" /\ status' = 0
       ELSE /\ pc' = "exit"
            /\ status' = 0
            /\ UNCHANGED << answer, prompts >>
    /\ UNCHANGED << string, expanded, config, env, sys, sys0, entries, i, any_actions, out, log >>

\* what ApplyInstall does with the context c that install() leaves; a
\* fatal error ends the process with code 1
Installed(c) ==
    /\ sys' = c.sys
    /\ out' = c.out
    /\ log' = c.log
    /\ IF c.exit
       THEN pc' = "exit" /\ status' = 1
       ELSE pc' = "files" /\ UNCHANGED status

\* lines 225-226
ApplyInstall ==
    /\ pc = "install"
    /\ IF entries[i].install_config # << >>
       THEN \E ext \in InstallExt :
              Installed(install(entries[i].install_config[1], i,
                                Ctx(sys, out, log, FALSE), ext))
       ELSE /\ pc' = "files"
            /\ UNCHANGED << sys, out, log, status >>
    /\ UNCHANGED << string, expanded, config, env, sys0, entries, i, any_actions, answer, prompts >>

\* the next entry, or the end of the script (exit code 0)
NextEntry ==
    IF i = Len(entries)
    THEN pc' = "exit" /\ status' = 0 /\ UNCHANGED i
    ELSE pc' = "install" /\ i' = i + 1 /\ UNCHANGED status

\* what ApplyFiles does with the context c that write_files() leaves
Written(c) ==
    /\ sys' = c.sys
    /\ out' = c.out
    /\ log' = c.log
    /\ IF c.exit
       THEN pc' = "exit" /\ status' = 1 /\ UNCHANGED i
       ELSE NextEntry

\* lines 227-228
ApplyFiles ==
    /\ pc = "files"
    /\ IF entries[i].files_config # << >>
       THEN \E ext \in FilesExt(Len(entries[i].files_config[1].files)) :
              Written(write_files(entries[i].files_config[1], i,
                                  Ctx(sys, out, log, FALSE), ext))
       ELSE /\ NextEntry
            /\ UNCHANGED << sys, out, log >>
    /\ UNCHANGED << string, expanded, config, env, sys0, entries, any_actions, answer, prompts >>

Next == Load \/ Plan \/ Confirm \/ ApplyInstall \/ ApplyFiles

Spec == Init /\ [][Next]_vars

----------------------------------------------------------------------------
(* substitute_environment_variable on its own: one call per run            *)

MaxPieces == 3

NameA == << "A" >>
NameB == << "B" >>
Placeholder(name) == << "$", "{" >> \o name \o << "}" >>

\* what the strings are made of: placeholders, plain text, a lone brace
Pieces == { Placeholder(NameA), Placeholder(NameB), << "x" >>, << "}" >> }

RECURSIVE Concat(_, _)
Concat(ps, k) == IF k > Len(ps) THEN << >> ELSE ps[k] \o Concat(ps, k + 1)

Strings == { Concat(ps, 1) : ps \in UNION { [1..n -> Pieces] : n \in 0..MaxPieces } }

\* the values of the environment: plain, empty, or holding a placeholder
Values == { << "a" >>, << >>, Placeholder(NameA), Placeholder(NameB),
            << "x" >> \o Placeholder(NameB) }

\* os.environ: A is always bound, B may be unbound
Environments == [{NameA, NameB} -> Values] \cup [{NameA} -> Values]

ExpandInit ==
    /\ string \in Strings
    /\ env \in Environments
    /\ expanded = << >>
    /\ pc = "call"
    /\ config = << >>
    /\ sys = [fs |-> << >>, dirs |-> {}, repos |-> {}, installed |-> {}]
    /\ sys0 = sys
    /\ entries = << >>
    /\ i = 1
    /\ any_actions = FALSE
    /\ out = << >>
    /\ log = << >>
    /\ answer = None
    /\ prompts = 0
    /\ status = -1

\* lines 31-44: string = substitute_environment_variable(string)
Expand ==
    /\ pc = "call"
    /\ expanded' = << substitute_environment_variable(string, env) >>
    /\ pc' = "return"
    /\ UNCHANGED << string, env, config, sys, sys0, entries, i, any_actions, out,
                    log, answer, prompts, status >>

ExpandNext == Expand

SpecExpand == ExpandInit /\ [][ExpandNext]_vars

----------------------------------------------------------------------------
(* Properties                                                              *)

InstallOps == {"add_repo", "download", "tmp_write", "dnf_install"}
FileOps == {"makedirs", "write", "sudo_mkdir", "sudo_cp"}
MutatingOps == InstallOps \cup FileOps

Mutated == \E k \in DOMAIN log : log[k].op \in MutatingOps

\* the entries whose plan has been printed, and whether a pending-action
\* line has been printed
PlanLines == { k \in DOMAIN out : out[k].kind = "Name" }
PendingKinds == {"Package will be installed", "File will be created",
                 "File will be updated"}
HasPending == \E k \in DOMAIN out : out[k].kind \in PendingKinds
PlanDone == Cardinality(PlanLines) = Len(config)

\* C1: nothing is registered, installed, downloaded or written unless the
\* plan found pending work and the answer to the prompt was exactly "Y";
\* a run that ends after any other answer leaves the host as it was.
C1_ConfirmationGate ==
    /\ (Mutated \/ sys # sys0) => (HasPending /\ answer = << "Y" >>)
    /\ (pc = "exit" /\ answer # << "Y" >>) => (sys = sys0 /\ ~Mutated)

\* a run with pending work that was declined with "y"
C1_Witness ==
    /\ pc = "exit"
    /\ HasPending
    /\ answer = << "y" >>
    /\ sys = sys0

\* C2: without pending work the run ends successfully with no prompt and no
\* write; with pending work in any entry the prompt is issued exactly once,
\* and only after every entry has been planned.
C2_PromptIffPending ==
    /\ prompts <= 1
    /\ (prompts = 1) => (PlanDone /\ HasPending)
    /\ (PlanDone /\ HasPending /\ pc # "confirm") => (prompts = 1)
    /\ (PlanDone /\ ~HasPending)
         => /\ pc \in {"confirm", "exit"}
            /\ prompts = 0
            /\ ~Mutated
            /\ sys = sys0
            /\ (pc = "exit" => status = 0)

\* the first of two entries has pending work, the second has none, and the
\* prompt has been issued
C2_Witness ==
    /\ Len(config) = 2
    /\ Len(entries) = 2
    /\ prompts = 1
    /\ get_actions(entries[1], sys0).value
    /\ ~get_actions(entries[2], sys0).value

\* the effects of the apply phase
IsApply(k) == log[k].op # "plan_probe"

\* C3: entries are applied in declaration order; within an entry the
\* installation comes before the files, and the files in declared order.
C3_ApplyOrder ==
    \A k, l \in DOMAIN log :
        (k < l /\ IsApply(k) /\ IsApply(l))
          => /\ log[k].entry <= log[l].entry
             /\ (log[k].entry = log[l].entry) => (log[k].idx <= log[l].idx)

\* both entries ran an installation and the first wrote its second file
C3_Witness ==
    /\ pc = "exit"
    /\ \E k \in DOMAIN log : log[k].entry = 1 /\ log[k].op = "dnf_install"
    /\ \E k \in DOMAIN log : log[k].entry = 1 /\ log[k].idx = 2
    /\ \E k \in DOMAIN log : log[k].entry = 2 /\ log[k].op = "dnf_install"
    /\ \E k \in DOMAIN log : log[k].entry = 2 /\ log[k].idx = 1

FatalOps == {"add_repo", "download", "dnf_install"}

\* what a step that ends the run in the installation keeps of the host
KeepsEarlierChanges ==
    /\ \A p \in AllPaths \ {TmpRpm} : sys'.fs[p] = sys.fs[p]
    /\ sys.dirs \subseteq sys'.dirs
    /\ sys.repos \subseteq sys'.repos
    /\ sys.installed \subseteq sys'.installed

\* C4: a failed repository registration, download or package installation
\* is the last thing the run does: it ends at once with a nonzero status,
\* and what earlier entries changed stays changed.
C4_InstallFailureFatal ==
    /\ [](\A k \in DOMAIN log :
            (log[k].op \in FatalOps /\ ~log[k].ok)
              => (k = Len(log) /\ pc = "exit" /\ status > 0))
    /\ [][(pc = "install" /\ pc' = "exit") => KeepsEarlierChanges]_vars

\* the installation of the second entry failed after the first entry had
\* changed the host
C4_Witness ==
    /\ pc = "exit"
    /\ status = 1
    /\ log # << >>
    /\ log[Len(log)].entry = 2
    /\ log[Len(log)].op \in FatalOps
    /\ ~log[Len(log)].ok
    /\ \E k \in DOMAIN log : log[k].entry = 1 /\ log[k].op = "write"
    /\ sys # sys0

\* construction of the k-th entry of the configuration fails
FailsConstruction(k) == ~Entry_init(EntryName(k), config[k], env, sys0).ok

\* C5: when the construction of any entry fails, wherever it stands in the
\* configuration, the run ends with a nonzero status before any plan is
\* printed, any probe is run or the prompt is issued.
C5_LoadAllOrNothing ==
    (\E k \in DOMAIN config : FailsConstruction(k))
      => /\ pc \in {"load", "exit"}
         /\ PlanLines = {}
         /\ log = << >>
         /\ prompts = 0
         /\ sys = sys0
         /\ (pc = "exit" => status > 0)

\* the second entry fails construction after a first entry with pending
\* work was constructed
C5_Witness ==
    /\ Len(config) = 2
    /\ ~FailsConstruction(1)
    /\ FailsConstruction(2)
    /\ Len(entries) = 1
    /\ get_actions(entries[1], sys0).value
    /\ pc = "exit"

\* exactly one of the two package sources has a value
ExactlyOne(data) ==
    Truthy(data.install_from_repo) # Truthy(data.install_from_remote_file)

\* C6: an InstallConfig is constructed only if exactly one of
\* install_from_repo and install_from_remote_file is set; with both or with
\* neither, construction ends the run.
C6_ExactlyOneSource ==
    \A k \in DOMAIN config :
        (config[k].install # << >>)
          => /\ (Len(entries) >= k) => ExactlyOne(config[k].install[1])
             /\ (~ExactlyOne(config[k].install[1]) /\ Len(entries) = k - 1
                   /\ pc # "load")
                  => (pc = "exit" /\ status = 1)

\* the run ended at an entry with both sources set
C6_Witness ==
    /\ pc = "exit"
    /\ status = 1
    /\ Len(entries) < Len(config)
    /\ config[Len(entries) + 1].install # << >>
    /\ Truthy(config[Len(entries) + 1].install[1].install_from_repo)
    /\ Truthy(config[Len(entries) + 1].install[1].install_from_remote_file)

\* the files constructed so far; the host they were classified against is
\* the initial one, which loading does not change
Files(k) == IF entries[k].files_config # << >>
            THEN entries[k].files_config[1].files ELSE << >>

FilesStep ==
    /\ pc = "files"
    /\ entries[i].files_config # << >>
    /\ ~(pc' = "exit" /\ status' = 1)

\* the action the pair of a file would get from the host after the step
Reclassified(each) ==
    ClassifyTarget(each.origin_file, each.target_file, sys').file.action

\* C8 as stated: after write_files(), a file that was classified Update is
\* classified NoOp.
C8_UpdateThenNoOp ==
    [][FilesStep
         => \A f \in DOMAIN Files(i) :
              (Files(i)[f].action = ACTION_UPDATED)
                => (Reclassified(Files(i)[f]) = ACTION_NONE)]_vars

\* the write of the f-th file of the current entry took effect in the step:
\* directly, or through the elevated copy
TookEffect(f) ==
    \E k \in (Len(log) + 1)..Len(log') :
        /\ log'[k].entry = i
        /\ log'[k].idx = f
        /\ log'[k].op \in {"write", "sudo_cp"}
        /\ log'[k].ok

\* no later file of the group with pending work has the same target
LastOnTarget(f) ==
    \A g \in DOMAIN Files(i) :
        (g > f /\ Files(i)[g].target_file = Files(i)[f].target_file)
          => (Files(i)[g].action = ACTION_NONE)

\* the source is as it was when the file was classified
SourceUnchanged(f) ==
    FileAt(sys', Files(i)[f].origin_file) = FileAt(sys0, Files(i)[f].origin_file)

\* C8 (amended): after write_files(), a file that was classified Update is
\* classified NoOp, provided its write took effect (directly or through the
\* elevated copy), no later file of the group was written to the same
\* target, and the source has not changed since construction.
C8_UpdateThenNoOpWhenWritten ==
    [][FilesStep
         => \A f \in DOMAIN Files(i) :
              (/\ Files(i)[f].action = ACTION_UPDATED
               /\ TookEffect(f)
               /\ LastOnTarget(f)
               /\ SourceUnchanged(f))
                => (Reclassified(Files(i)[f]) = ACTION_NONE)]_vars

\* the run has written a file classified Update, which is now in sync
C8_Witness ==
    /\ pc = "exit"
    /\ status = 0
    /\ \E k \in DOMAIN log :
         /\ log[k].op = "write"
         /\ Files(log[k].entry)[log[k].idx].action = ACTION_UPDATED
         /\ ClassifyTarget(Files(log[k].entry)[log[k].idx].origin_file,
                           Files(log[k].entry)[log[k].idx].target_file,
                           sys).file.action = ACTION_NONE

\* C9: get_actions changes neither the host nor the entry, and a second
\* call right after the first prints the same lines and returns the same
\* value.
C9_PlanReadOnly ==
    [][(pc = "plan")
         => /\ sys' = sys
            /\ entries' = entries
            /\ (pc' # "exit")
                 => /\ get_actions(entries'[i], sys').printed
                         = SubSeq(out', Len(out) + 1, Len(out'))
                    /\ get_actions(entries'[i], sys').value
                         = get_actions(entries[i], sys).value]_vars

\* an entry with an installation and pending files has been planned
C9_Witness ==
    /\ pc \in {"plan", "confirm"}
    /\ \E k \in DOMAIN log : log[k].op = "plan_probe" /\ ~log[k].ok
    /\ \E k \in DOMAIN out : out[k].kind = "File will be updated"
    /\ sys = sys0

OpsOf(e, op) == { k \in DOMAIN log : log[k].entry = e /\ log[k].op = op }

\* each of the three commands of an installation is run at most once per
\* entry, and nothing of the installation follows a failed command
InstallAtMostOnce ==
    /\ \A e \in DOMAIN entries : \A op \in FatalOps : Cardinality(OpsOf(e, op)) <= 1
    /\ \A k, l \in DOMAIN log :
         (k < l /\ log[k].op \in FatalOps /\ ~log[k].ok)
           => (log[l].entry # log[k].entry \/ log[l].op \notin InstallOps)

\* an entry whose probe fails whatever the host is
AlwaysFails(e) ==
    /\ entries[e].install_config # << >>
    /\ StrSplit(entries[e].install_config[1].if_fail, " ")[1] = << "false" >>

\* the files of an entry that were classified Create on an absent target
AbsentTargets(e) ==
    { f \in DOMAIN Files(e) :
        /\ Files(e)[f].action = ACTION_CREATED
        /\ ~Exists(sys0, Files(e)[f].target_file) }

LastWriteIs(e, f, p) ==
    \E k \in DOMAIN log :
        /\ log[k].op \in {"write", "sudo_cp"}
        /\ log[k].ok
        /\ log[k].arg = p
        /\ log[k].entry = e
        /\ log[k].idx = f
        /\ \A l \in DOMAIN log :
             (l > k /\ log[l].arg = p) => ~(log[l].op \in {"write", "sudo_cp"} /\ log[l].ok)

StepOps(f, op) ==
    { k \in (Len(log) + 1)..Len(log') :
        log'[k].entry = i /\ log'[k].idx = f /\ log'[k].op = op }

\* the direct write of file f (or the creation of its directory) is refused
\* for lack of privilege
PrivilegeFailure(f) ==
    /\ Files(i)[f].action \in {ACTION_CREATED, ACTION_UPDATED}
    /\ \/ OpenWrite(sys, Files(i)[f].target_file, << >>).res = "denied"
       \/ /\ Files(i)[f].action = ACTION_CREATED
          /\ Makedirs(sys, Dirname(Files(i)[f].target_file)).res = "denied"

\* C12: when the direct write or the directory creation of a Create/Update
\* file is refused for lack of privilege, write_files() runs the elevated
\* commands (mkdir -p before cp for a Create, cp alone for an Update), does
\* not look at their outcome, goes on with the remaining files and the next
\* entry, and never ends the run with a nonzero status: a run that exits
\* nonzero did not do so after a file operation.
C12_PrivilegeFailureDegrades ==
    /\ []((pc = "exit" /\ status # 0 /\ log # << >>)
            => log[Len(log)].op \notin FileOps)
    /\ [][(pc = "files" /\ entries[i].files_config # << >>)
            => /\ \A f \in DOMAIN Files(i) :
                    /\ PrivilegeFailure(f)
                         => /\ Cardinality(StepOps(f, "sudo_cp")) = 1
                            /\ StepOps(f, "write") = {}
                            /\ (Files(i)[f].action = ACTION_CREATED)
                                 => \E k \in StepOps(f, "sudo_mkdir") :
                                      \A l \in StepOps(f, "sudo_cp") : k < l
                            /\ (Files(i)[f].action = ACTION_UPDATED)
                                 => StepOps(f, "sudo_mkdir") = {}
                    /\ (Files(i)[f].action \in {ACTION_CREATED, ACTION_UPDATED}
                          /\ ~PrivilegeFailure(f))
                         => /\ Cardinality(StepOps(f, "write")) = 1
                            /\ StepOps(f, "sudo_cp") = {}
               /\ IF i = Len(entries)
                  THEN pc' = "exit" /\ status' = 0
                  ELSE pc' = "install" /\ i' = i + 1]_vars

\* the elevated copy of the first entry's first file failed, its target is
\* still out of sync, the second file was written all the same, the second
\* entry had its missing directory created and its file copied by the
\* elevated commands, and the run has exited with 0
C12_Witness ==
    /\ pc = "exit"
    /\ status = 0
    /\ \E k \in DOMAIN log :
         /\ log[k].op = "sudo_cp"
         /\ ~log[k].ok
         /\ log[k].entry = 1
         /\ ClassifyTarget(Files(1)[log[k].idx].origin_file,
                           Files(1)[log[k].idx].target_file, sys).file.action
              # ACTION_NONE
         /\ \E l \in DOMAIN log :
              l > k /\ log[l].entry = 1 /\ log[l].idx > log[k].idx /\ log[l].op = "write"
    /\ \E k, l \in DOMAIN log :
         /\ k < l
         /\ log[k].op = "sudo_mkdir" /\ log[k].ok /\ log[k].arg \notin sys0.dirs
         /\ log[l].op = "sudo_cp" /\ log[l].ok
         /\ log[k].entry = 2 /\ log[l].entry = 2

\* the lines a plan step prints, and those between the name and the blank line
Printed == SubSeq(out', Len(out) + 1, Len(out'))
Body == SubSeq(Printed, 2, Len(Printed) - 1)

\* the entry has an installation whose probe fails on the host as it is
ProbeFailsNow(e) ==
    /\ entries[e].install_config # << >>
    /\ ~run_command(entries[e].install_config[1].if_fail, sys, FALSE).status

\* the files of an entry with pending work, and the rank of one among them
PendingFiles(e) ==
    { f \in DOMAIN Files(e) : Files(e)[f].action \in {ACTION_CREATED, ACTION_UPDATED} }
Rank(e, f) == Cardinality({ g \in PendingFiles(e) : g <= f })

\* the kind of line that announces each action
KindOf(a) == IF a = ACTION_CREATED THEN "File will be created"
             ELSE "File will be updated"

\* C13: get_actions prints the name, then the install line first if and
\* only if the entry has an installation whose probe currently fails, then
\* one line for each file classified Create or Update, in declared order,
\* and none for a NoOp; it returns true iff a line was produced, and prints
\* the single marker OK otherwise.
C13_PlanLines ==
    [][(pc = "plan" /\ pc' # "exit")
         => LET n == IF ProbeFailsNow(i) THEN 1 ELSE 0
                np == Cardinality(PendingFiles(i))
            IN  /\ Printed[1] = Line("Name", entries[i].name)
                /\ Printed[Len(Printed)] = Line("", << >>)
                /\ IF n + np = 0
                   THEN /\ Body = << Line("OK", << >>) >>
                        /\ any_actions' = any_actions
                   ELSE /\ Len(Body) = n + np
                        /\ any_actions' = TRUE
                        /\ (n = 1)
                             => Body[1] = Line("Package will be installed",
                                               Package(entries[i].install_config[1]))
                        /\ \A f \in PendingFiles(i) :
                             Body[n + Rank(i, f)]
                               = Line(KindOf(Files(i)[f].action),
                                      Files(i)[f].target_file)]_vars

\* the plan of an entry has been printed with the install line first, no
\* line for its first file (NoOp) and an update line for its second
C13_Witness ==
    \E k \in DOMAIN out :
        /\ k + 3 <= Len(out)
        /\ out[k].kind = "Name"
        /\ out[k + 1].kind = "Package will be installed"
        /\ out[k + 2].kind = "File will be updated"
        /\ out[k + 3].kind = ""
        /\ \E e \in DOMAIN entries :
             /\ out[k].text = entries[e].name
             /\ Len(Files(e)) = 2
             /\ Files(e)[1].action = ACTION_NONE
             /\ out[k + 2].text = Files(e)[2].target_file

\* a placeholder ${IDENTIFIER} of string s at position k: the identifier is
\* one name token
PlaceholderAt(s, k) ==
    /\ k + 3 <= Len(s)
    /\ s[k] = "$" /\ s[k + 1] = "{" /\ s[k + 3] = "}"
    /\ s[k + 2] \notin {"$", "{", "}"}

\* every identifier of the string is bound
AllBound(s, en) ==
    \A k \in DOMAIN s : PlaceholderAt(s, k) => << s[k + 2] >> \in DOMAIN en

\* the single pass over the original string: each placeholder gives the
\* value bound to its identifier, everything else is copied, and what has
\* been put in is not looked at again
RECURSIVE SinglePass(_, _, _)
SinglePass(s, en, k) ==
    IF k > Len(s) THEN << >>
    ELSE IF PlaceholderAt(s, k)
         THEN en[<< s[k + 2] >>] \o SinglePass(s, en, k + 4)
         ELSE << s[k] >> \o SinglePass(s, en, k + 1)

\* every brace of the string belongs to a placeholder
Braced(s) ==
    \A k \in DOMAIN s :
        (s[k] \in {"$", "{", "}"})
          => \E j \in DOMAIN s : PlaceholderAt(s, j) /\ k \in {j, j + 1, j + 3}

\* C14, for the strings whose braces all belong to placeholders: for every
\* such string and every environment that binds its identifiers, also one
\* whose values hold ${...} text, the result is the single pass over the
\* original string: each ${IDENTIFIER} is replaced by the value bound to
\* IDENTIFIER and text put in by an expansion is not expanded again.
C14_SinglePass ==
    (pc = "return" /\ Braced(string) /\ AllBound(string, env))
      => expanded = << [ok |-> TRUE, val |-> SinglePass(string, env, 1)] >>

\* the construction of the k-th entry has ended the run with this message
EndedAt(k, why) ==
    /\ pc = "exit"
    /\ status = 1
    /\ Len(entries) = k - 1
    /\ out # << >>
    /\ out[Len(out)] = Line("ERROR", << why >>)

\* the probe command of the k-th entry holds a newline
MultilineProbe(k) ==
    /\ config[k].install # << >>
    /\ \E j \in DOMAIN config[k].install[1].if_fail :
         config[k].install[1].if_fail[j] = "LF"

\* C15: an InstallConfig whose if_fail holds a newline is never constructed:
\* the run ends at that entry with the error about multiline commands.
C15_MultilineProbeFails ==
    \A k \in DOMAIN config :
        MultilineProbe(k)
          => /\ Len(entries) < k
             /\ (Len(entries) = k - 1 /\ pc # "load") => EndedAt(k, "multiline")

\* the run ended at a second entry whose probe holds a newline
C15_Witness ==
    /\ Len(config) = 2
    /\ MultilineProbe(2)
    /\ EndedAt(2, "multiline")

\* the remote file of the k-th entry is set and does not end in .rpm
NotAnArchive(k) ==
    /\ config[k].install # << >>
    /\ Truthy(config[k].install[1].install_from_remote_file)
    /\ ~EndsWith(config[k].install[1].install_from_remote_file, << ".rpm" >>)

\* C16: an InstallConfig whose install_from_remote_file does not end in
\* ".rpm" is never constructed: the run ends at that entry, with the error
\* about the RPM file when the section is valid otherwise.
C16_RemoteNotRpmFails ==
    \A k \in DOMAIN config :
        NotAnArchive(k)
          => /\ Len(entries) < k
             /\ (Len(entries) = k - 1 /\ pc # "load")
                  => /\ pc = "exit" /\ status = 1
                     /\ (~MultilineProbe(k) /\ ExactlyOne(config[k].install[1]))
                          => EndedAt(k, "rpm")

\* the run ended at a second entry whose remote file is a .txt
C16_Witness ==
    /\ Len(config) = 2
    /\ NotAnArchive(2)
    /\ EndedAt(2, "rpm")

\* the effective writes: a direct write, or an elevated copy that succeeded
IsWrite(ev) == ev.op \in {"write", "sudo_cp"} /\ ev.ok

\* the positions in the log of what the step does
StepLog == (Len(log) + 1)..Len(log')

\* the effective write of file f in the step, when no later write of the
\* step lands on the same target
StepLastWrite(f, op) ==
    \E k \in StepLog :
        /\ log'[k].entry = i /\ log'[k].idx = f
        /\ log'[k].op = op /\ log'[k].ok
        /\ \A l \in StepLog :
             (l > k /\ log'[l].arg = Files(i)[f].target_file) => ~IsWrite(log'[l])

\* what the step does with each file follows the action of the file as it
\* was constructed: Create and Update are announced and attempted, whatever
\* the target has become, and nothing is done for a NoOp
ActsOnCapturedAction ==
    \A f \in DOMAIN Files(i) :
        /\ (Files(i)[f].action = ACTION_NONE)
             => { k \in StepLog : log'[k].entry = i /\ log'[k].idx = f } = {}
        /\ (Files(i)[f].action = ACTION_CREATED)
             => /\ Cardinality(StepOps(f, "write")) + Cardinality(StepOps(f, "sudo_cp")) = 1
                /\ \E k \in (Len(out) + 1)..Len(out') :
                     out'[k] = Line("INFO", << "Creating file" >>
                                              \o Files(i)[f].target_file)
        /\ (Files(i)[f].action = ACTION_UPDATED)
             => /\ Cardinality(StepOps(f, "write")) + Cardinality(StepOps(f, "sudo_cp")) = 1
                /\ StepOps(f, "makedirs") = {} /\ StepOps(f, "sudo_mkdir") = {}
                /\ \E k \in (Len(out) + 1)..Len(out') :
                     out'[k] = Line("INFO", << "Updating file" >>
                                              \o Files(i)[f].target_file)

\* C17 as stated: the entries, with the action and the source content of
\* each file, do not change once constructed; write_files() acts on the
\* captured action whatever the target has become, a NoOp is never written,
\* and what a Create or Update leaves in the target is the source content
\* captured at construction.
C17_ActsOnCaptured ==
    [][/\ (pc # "load") => (entries' = entries)
       /\ (pc = "files" /\ entries[i].files_config # << >>)
            => /\ ActsOnCapturedAction
               /\ \A f \in DOMAIN Files(i) :
                    (StepLastWrite(f, "write") \/ StepLastWrite(f, "sudo_cp"))
                      => ReadText(FileAt(sys', Files(i)[f].target_file))
                           = Files(i)[f].origin_file_content]_vars

\* the source of file f is not written by the step
SourceKept(f) ==
    \A l \in StepLog : (log'[l].arg = Files(i)[f].origin_file) => ~IsWrite(log'[l])

\* C17 (amended): the entries, with the action and the source content of
\* each file, do not change once constructed; write_files() acts on the
\* captured action whatever the target has become, and a NoOp is never
\* written; a direct write leaves the captured source content in the target,
\* while the elevated copy of the fallback leaves the source file as it is
\* when the copy runs.
C17_ActsOnCapturedOrCopies ==
    [][/\ (pc # "load") => (entries' = entries)
       /\ (pc = "files" /\ entries[i].files_config # << >>)
            => /\ ActsOnCapturedAction
               /\ \A f \in DOMAIN Files(i) :
                    /\ StepLastWrite(f, "write")
                         => FileAt(sys', Files(i)[f].target_file)
                              = WriteText(Files(i)[f].origin_file_content)
                    /\ (StepLastWrite(f, "sudo_cp") /\ SourceKept(f))
                         => FileAt(sys', Files(i)[f].target_file)
                              = FileAt(sys', Files(i)[f].origin_file)]_vars

\* the second file of the first entry and the file of the second entry were
\* both classified Update against the same target and both written, the
\* second onto a target that was in sync by then; the first file of the
\* first entry, a NoOp, was not written although its target has changed
C17_Witness ==
    /\ pc = "exit"
    /\ Len(entries) = 2
    /\ Len(Files(1)) = 2
    /\ Len(Files(2)) = 1
    /\ Files(1)[1].action = ACTION_NONE
    /\ Files(1)[2].action = ACTION_UPDATED
    /\ Files(2)[1].action = ACTION_UPDATED
    /\ Files(2)[1].target_file = Files(1)[2].target_file
    /\ Files(2)[1].origin_file = Files(1)[2].origin_file
    /\ \E k, l \in DOMAIN log :
         /\ k < l
         /\ log[k].op = "write" /\ log[k].entry = 1 /\ log[k].idx = 2
         /\ log[l].op = "write" /\ log[l].entry = 2 /\ log[l].idx = 1
    /\ \A k \in DOMAIN log : ~(log[k].entry = 1 /\ log[k].idx = 1)
    /\ ClassifyTarget(Files(1)[1].origin_file, Files(1)[1].target_file,
                      sys).file.action = ACTION_UPDATED

\* the plan of entry e holds a line of this kind and text: the lines of an
\* entry run from its name to the next blank line
Announced(e, kind, text) ==
    \E k, j \in DOMAIN out :
        /\ k < j
        /\ out[k] = Line("Name", entries[e].name)
        /\ out[j].kind = kind
        /\ (text # None) => (out[j].text = text)
        /\ \A m \in k..j : out[m].kind # ""

\* C18: whatever the apply phase does to the host was announced in the plan
\* of its entry: an installation (registration, download, archive, package
\* manager) by the line "Package will be installed", a file creation or
\* update by the line for that target.
C18_ApplyWithinPlan ==
    \A k \in DOMAIN log :
        /\ (log[k].op \in InstallOps)
             => Announced(log[k].entry, "Package will be installed", None)
        /\ (log[k].op \in FileOps)
             => \/ Announced(log[k].entry, "File will be created",
                             Files(log[k].entry)[log[k].idx].target_file)
                \/ Announced(log[k].entry, "File will be updated",
                             Files(log[k].entry)[log[k].idx].target_file)

\* the files a second run would construct for the k-th entry from the host
\* as the first run has left it
SecondRun(k) ==
    IF config[k].files # << >>
    THEN FilesConfig_init(config[k].files[1], env, sys)
    ELSE [ok |-> TRUE, obj |-> [files |-> << >>]]

\* a confirmed run that has ended without fatal abort and without any
\* privilege failure (no elevated command was needed), sources unchanged
CompletedUnprivileged ==
    /\ pc = "exit"
    /\ status = 0
    /\ answer = << "Y" >>
    /\ \A k \in DOMAIN log : log[k].op \notin {"sudo_mkdir", "sudo_cp"}
    /\ \A e \in DOMAIN entries : \A f \in DOMAIN Files(e) :
         FileAt(sys, Files(e)[f].origin_file) = FileAt(sys0, Files(e)[f].origin_file)

AgreedTarget(e, f) ==
    \A d \in DOMAIN entries : \A g \in DOMAIN Files(d) :
        (Files(d)[g].target_file = Files(e)[f].target_file)
          => (Files(d)[g].origin_file_content = Files(e)[f].origin_file_content)

====
